---- MODULE Spec2Model ----
(***************************************************************************)
(* Landing-page growth backlog generator: the ICE scorer                   *)
(* (backend/app/models/ice_scoring.py) and the analysis pipeline           *)
(* (backend/app/services/growth_analyzer.py).                              *)
(*                                                                         *)
(* Numbers.  Every score of the program is a Python float with at most two *)
(* decimals, so a score x is carried as the integer 100 * x (hundredths):  *)
(* 5.0 is 500, the category weight 1.3 is 130, reasoning_strength 0.33 is  *)
(* 33.  round(x, k) is RoundDiv below.                                     *)
(*                                                                         *)
(* Dictionaries.  A Python dict is a function whose DOMAIN is its key set; *)
(* d.get(k, default) is Get(d, k, default).  A boolean attribute that is   *)
(* absent behaves as False in every test the code makes, so the boolean    *)
(* attributes are always present in the model and FALSE stands for both.   *)
(***************************************************************************)
EXTENDS Integers, Sequences, FiniteSets, TLC

VARIABLES
    pc,                 \* position of the run that is being modelled
    idea_data,          \* ICEScorer: the attribute dict handed to score_idea
    ice_scores,         \* ICEScorer: the dict score_idea returned
    image,              \* pipeline input: what the image file holds
    ocr,                \* pipeline input: what pytesseract does with it
    console_emoji,      \* pipeline input: can stdout encode the emoji prints
    llm,                \* pipeline input: what the external model would reply
    visual_elements,    \* analyze_landing_page local
    extracted_text,     \* analyze_landing_page local
    image_description,  \* analyze_landing_page local
    business_type,      \* _generate_specific_ideas_from_text local, line 947
    ideas,              \* analyze_landing_page local / _score_ideas_with_ice input
    scored_ideas,       \* analyze_landing_page local / _score_ideas_with_ice output
    exception,          \* the exception caught at line 210, if any
    calls,              \* the calls of _extract_visual_elements (lines 139, 482), the
                        \* attempts of the model call of line 627 and the calls of the
                        \* helpers of lines 643-678 made so far, in order
    result              \* the dict analyze_landing_page / _generate_summary returns

scoreVars == <<idea_data, ice_scores>>
inputVars == <<image, ocr, console_emoji, llm>>
localVars == <<visual_elements, extracted_text, image_description>>
vars == <<pc, scoreVars, inputVars, localVars, business_type, ideas, scored_ideas,
          exception, calls, result>>

None == "none"

(***************************************************************************)
(* Bounds of the model.                                                    *)
(***************************************************************************)
MaxCaseStudyCount == 4
MaxDevTimeDays == 7

(***************************************************************************)
(* dict.get and the numeric helpers.                                       *)
(***************************************************************************)
Get(d, k, default) == IF k \in DOMAIN d THEN d[k] ELSE default

Min(a, b) == IF a < b THEN a ELSE b
Max(a, b) == IF a > b THEN a ELSE b

RECURSIVE OddPart(_)
OddPart(n) == IF n % 2 = 0 THEN OddPart(n \div 2) ELSE n

\* n / (d * scale) is a binary fraction, i.e. a value a float holds exactly.
IsDyadic(n, d, scale) == n % OddPart(d * scale) = 0

\* Python round(): n/d rounded to the nearest integer.  A decimal tie that
\* the float holds exactly goes to the even neighbour; a tie the float cannot
\* hold exactly goes where the representation error points, which is the
\* input "up".
RoundDiv(n, d, exact, up) ==
    LET q == n \div d
        r == n % d
    IN  IF 2 * r < d THEN q
        ELSE IF 2 * r > d THEN q + 1
        ELSE IF exact THEN (IF q % 2 = 0 THEN q ELSE q + 1)
        ELSE IF up THEN q + 1 ELSE q

\* round(x, 1) of a value in hundredths, in hundredths again.
Round1(x, up) == 10 * RoundDiv(x, 10, x % 25 = 0, up)

(***************************************************************************)
(* ICEScorer                                                               *)
(***************************************************************************)
Categories == {"copy", "design", "ux", "technical", "layout",
               "trust", "social_proof", "general"}

category_weights ==
    [copy |-> 120, design |-> 110, ux |-> 130, technical |-> 90, layout |-> 100]

complexity_scores == [low |-> -200, medium |-> 0, high |-> 200]

\* Clamp without the cap at 10
ClampLowerOnly(x) == Max(100, x)

Clamp(x) == Min(1000, Max(100, x))

calculate_impact(d) ==
    LET category == Get(d, "category", "layout")
        base == (500 * Get(category_weights, category, 100)) \div 100
        b1 == base + (IF d.affects_value_proposition THEN 200 ELSE 0)
        b2 == b1 + (IF d.affects_cta THEN 150 ELSE 0)
        b3 == b2 + (IF d.affects_trust THEN 100 ELSE 0)
        b4 == b3 + (IF d.affects_social_proof THEN 100 ELSE 0)
    IN  Clamp(b4)

\* calculate_confidence giving the case-study bonus from 3 studies on
calculate_confidence_count_from_three(d) ==
    LET b1 == 500 + (IF d.has_case_studies THEN 200 ELSE 0)
        b2 == b1 + (IF Get(d, "case_study_count", 0) >= 3 THEN 100 ELSE 0)
        b3 == b2 + (IF d.follows_best_practices THEN 150 ELSE 0)
        b4 == b3 + (IF d.industry_standard THEN 100 ELSE 0)
        reasoning_strength == Get(d, "reasoning_strength", 50)
    IN  Clamp(b4 + reasoning_strength * 2)

calculate_confidence(d) ==
    LET b1 == 500 + (IF d.has_case_studies THEN 200 ELSE 0)
        b2 == b1 + (IF Get(d, "case_study_count", 0) > 3 THEN 100 ELSE 0)
        b3 == b2 + (IF d.follows_best_practices THEN 150 ELSE 0)
        b4 == b3 + (IF d.industry_standard THEN 100 ELSE 0)
        reasoning_strength == Get(d, "reasoning_strength", 50)
    IN  Clamp(b4 + reasoning_strength * 2)

calculate_effort(d) ==
    LET complexity == Get(d, "complexity", "medium")
        b1 == 500 + Get(complexity_scores, complexity, 0)
        dev_time_days == Get(d, "dev_time_days", 3)
        b2 == IF dev_time_days <= 1 THEN b1 - 200
              ELSE IF dev_time_days <= 3 THEN b1 - 100
              ELSE IF dev_time_days >= 7 THEN b1 + 200
              ELSE b1
        b3 == b2 + (IF d.requires_design THEN 100 ELSE 0)
        b4 == b3 + (IF d.requires_copywriting THEN 50 ELSE 0)
        b5 == b4 + (IF d.requires_ab_testing THEN 100 ELSE 0)
        b6 == b5 + (IF d.requires_user_research THEN 150 ELSE 0)
    IN  Clamp(b6)

\* calculate_ice_score capping the score at 10 as the three factors are
calculate_ice_score_capped(impact, confidence, effort, up) ==
    IF effort = 0 THEN 0
    ELSE Min(1000, RoundDiv(impact * confidence, effort,
                            confidence % 25 = 0
                                /\ IsDyadic(impact * confidence, effort, 100),
                            up))

\* (impact * confidence) / effort, rounded to 2 decimals.  Impact and effort
\* are multiples of 0.5; the quotient is exact in floating point when the
\* confidence and the quotient are binary fractions.
calculate_ice_score(impact, confidence, effort, up) ==
    IF effort = 0 THEN 0
    ELSE RoundDiv(impact * confidence, effort,
                  confidence % 25 = 0 /\ IsDyadic(impact * confidence, effort, 100),
                  up)

get_priority_level(ice_score) ==
    IF ice_score >= 800 THEN "high"
    ELSE IF ice_score >= 400 THEN "medium"
    ELSE "low"

\* expected_lift = (impact * confidence) / 100 * 25, compared with 15, 10, 5:
\* in hundredths impact * confidence / 10000 * 25 / 100 >= 15, and so on.
_estimate_lift(impact, confidence) ==
    IF impact * confidence >= 600000 THEN "15-25% conversion increase"
    ELSE IF impact * confidence >= 400000 THEN "10-15% conversion increase"
    ELSE IF impact * confidence >= 200000 THEN "5-10% conversion increase"
    ELSE "2-5% conversion increase"

_estimate_time(effort) ==
    IF effort <= 300 THEN "1-2 days"
    ELSE IF effort <= 600 THEN "3-5 days"
    ELSE "1-2 weeks"

\* score_idea rounding the three factors to 1 decimal before it divides
score_idea_rounding_first(d, up) ==
    LET impact == Round1(calculate_impact(d), up)
        confidence == Round1(calculate_confidence(d), up)
        effort == Round1(calculate_effort(d), up)
        ice_score == calculate_ice_score(impact, confidence, effort, up)
        priority == get_priority_level(ice_score)
    IN  [impact |-> impact,
         confidence |-> confidence,
         effort |-> effort,
         ice_score |-> ice_score,
         priority |-> priority,
         estimated_lift |-> _estimate_lift(impact, confidence),
         implementation_time |-> _estimate_time(effort)]

score_idea(d, up) ==
    LET impact == calculate_impact(d)
        confidence == calculate_confidence(d)
        effort == calculate_effort(d)
        ice_score == calculate_ice_score(impact, confidence, effort, up)
        priority == get_priority_level(ice_score)
    IN  [impact |-> Round1(impact, up),
         confidence |-> Round1(confidence, up),
         effort |-> Round1(effort, up),
         ice_score |-> ice_score,
         priority |-> priority,
         estimated_lift |-> _estimate_lift(impact, confidence),
         implementation_time |-> _estimate_time(effort)]

(***************************************************************************)
(* The attribute dicts score_idea is applied to.  An attribute dict is the *)
(* union of the attributes calculate_impact reads, those                   *)
(* calculate_confidence reads and those calculate_effort reads.  Each of   *)
(* the three groups ranges over all its combinations while the other two   *)
(* range over a few representative ones.                                   *)
(***************************************************************************)
\* reasoning_strength in hundredths: the ends of [0,1], the defaults of the
\* code (0.5, 0.7, 0.8), multiples of 0.05 and values that are not.
ReasoningStrengths == {0, 25, 33, 50, 67, 70, 80, 100}

ImpactParts ==
    [category : Categories, affects_value_proposition : BOOLEAN,
     affects_cta : BOOLEAN, affects_trust : BOOLEAN, affects_social_proof : BOOLEAN]
    \cup
    [affects_value_proposition : BOOLEAN,
     affects_cta : BOOLEAN, affects_trust : BOOLEAN, affects_social_proof : BOOLEAN]

ConfidenceParts ==
    [has_case_studies : BOOLEAN, case_study_count : 0..MaxCaseStudyCount,
     follows_best_practices : BOOLEAN, industry_standard : BOOLEAN,
     reasoning_strength : ReasoningStrengths]
    \cup
    [has_case_studies : BOOLEAN, follows_best_practices : BOOLEAN,
     industry_standard : BOOLEAN]

EffortParts ==
    [complexity : {"low", "medium", "high"}, dev_time_days : 0..MaxDevTimeDays,
     requires_design : BOOLEAN, requires_copywriting : BOOLEAN,
     requires_ab_testing : BOOLEAN, requires_user_research : BOOLEAN]
    \cup
    [requires_design : BOOLEAN, requires_copywriting : BOOLEAN,
     requires_ab_testing : BOOLEAN, requires_user_research : BOOLEAN]

ImpactProbes ==
    {[affects_value_proposition |-> FALSE, affects_cta |-> FALSE,
      affects_trust |-> FALSE, affects_social_proof |-> FALSE],
     [category |-> "ux", affects_value_proposition |-> FALSE, affects_cta |-> TRUE,
      affects_trust |-> FALSE, affects_social_proof |-> FALSE],
     [category |-> "technical", affects_value_proposition |-> FALSE,
      affects_cta |-> FALSE, affects_trust |-> TRUE, affects_social_proof |-> FALSE],
     [category |-> "copy", affects_value_proposition |-> TRUE, affects_cta |-> TRUE,
      affects_trust |-> TRUE, affects_social_proof |-> TRUE]}

ConfidenceProbes ==
    {[has_case_studies |-> FALSE, follows_best_practices |-> FALSE,
      industry_standard |-> FALSE],
     [has_case_studies |-> FALSE, case_study_count |-> 0,
      follows_best_practices |-> FALSE, industry_standard |-> FALSE,
      reasoning_strength |-> 33],
     [has_case_studies |-> TRUE, case_study_count |-> 2,
      follows_best_practices |-> TRUE, industry_standard |-> TRUE,
      reasoning_strength |-> 70],
     [has_case_studies |-> FALSE, case_study_count |-> 4,
      follows_best_practices |-> TRUE, industry_standard |-> FALSE,
      reasoning_strength |-> 0]}

EffortProbes ==
    {[requires_design |-> FALSE, requires_copywriting |-> FALSE,
      requires_ab_testing |-> FALSE, requires_user_research |-> FALSE],
     [complexity |-> "low", dev_time_days |-> 1,
      requires_design |-> FALSE, requires_copywriting |-> FALSE,
      requires_ab_testing |-> FALSE, requires_user_research |-> FALSE],
     [complexity |-> "high", dev_time_days |-> 7,
      requires_design |-> TRUE, requires_copywriting |-> TRUE,
      requires_ab_testing |-> TRUE, requires_user_research |-> TRUE],
     [complexity |-> "medium", dev_time_days |-> 5,
      requires_design |-> FALSE, requires_copywriting |-> TRUE,
      requires_ab_testing |-> TRUE, requires_user_research |-> FALSE]}

IdeaDataSet ==
    {a @@ b @@ c : a \in ImpactParts, b \in ConfidenceProbes, c \in EffortProbes}
    \cup
    {a @@ b @@ c : a \in ImpactProbes, b \in ConfidenceParts, c \in EffortProbes}
    \cup
    {a @@ b @@ c : a \in ImpactProbes, b \in ConfidenceProbes, c \in EffortParts}

(***************************************************************************)
(* Specification SpecScore: ICEScorer.score_idea applied to one attribute  *)
(* dict.                                                                   *)
(***************************************************************************)
InitScore ==
    /\ pc = "score_input"
    /\ idea_data \in IdeaDataSet
    /\ ice_scores = None
    /\ image = None /\ ocr = None /\ console_emoji = None /\ llm = None
    /\ business_type = None
    /\ visual_elements = None /\ extracted_text = None
    /\ image_description = None /\ ideas = None /\ scored_ideas = None
    /\ exception = None /\ result = None
    /\ calls = <<>>

ScoreIdea ==
    /\ pc = "score_input"
    /\ \E up \in BOOLEAN : ice_scores' = score_idea(idea_data, up)
    /\ pc' = "scored"
    /\ UNCHANGED <<idea_data, inputVars, calls, localVars, business_type, ideas, scored_ideas,
                   exception, result>>

NextScore == ScoreIdea

SpecScore == InitScore /\ [][NextScore]_vars

(***************************************************************************)
(* GrowthAnalyzer: the inputs of a run.                                    *)
(*                                                                         *)
(* The extracted text is carried as its length and the set of phrases of a *)
(* small vocabulary that occur in its lower-cased form; the code only      *)
(* tests the text for its length and for substrings.  NeedlesIn(p) lists   *)
(* the substrings the code searches for that occur in phrase p.            *)
(***************************************************************************)
MaxPhrases == 2
MaxRegions == 1

TextPhrases ==
    {"calm your mind", "sleep", "masterclass", "learn from the best",
     "bite-sized lessons", "shop", "buy now", "software", "free", "get started"}

PhraseLen(p) ==
    IF p = "calm your mind" THEN 14 ELSE
    IF p = "sleep" THEN 5 ELSE
    IF p = "masterclass" THEN 11 ELSE
    IF p = "learn from the best" THEN 19 ELSE
    IF p = "bite-sized lessons" THEN 18 ELSE
    IF p = "shop" THEN 4 ELSE
    IF p = "buy now" THEN 7 ELSE
    IF p = "software" THEN 8 ELSE
    IF p = "free" THEN 4 ELSE
    11

NeedlesIn(p) ==
    IF p = "calm your mind" THEN {"calm", "calm your mind"} ELSE
    IF p = "sleep" THEN {"sleep"} ELSE
    IF p = "masterclass" THEN {"masterclass"} ELSE
    IF p = "learn from the best" THEN {"learn", "learn from the best"} ELSE
    IF p = "bite-sized lessons" THEN {"lesson", "bite-sized lessons"} ELSE
    IF p = "shop" THEN {"shop"} ELSE
    IF p = "buy now" THEN {"buy"} ELSE
    IF p = "software" THEN {"software"} ELSE
    IF p = "free" THEN {"free"} ELSE
    {"get", "start"}

\* needle in text_lower
Occurs(needle, text_lower) == \E p \in text_lower.phrases : needle \in NeedlesIn(p)

RECURSIVE MinLen(_)
MinLen(P) ==
    IF P = {} THEN 0
    ELSE LET p == CHOOSE x \in P : TRUE
         IN  PhraseLen(p) + (IF P = {p} THEN 0 ELSE 1 + MinLen(P \ {p}))

TextLengths == {0, 20, 50, 51, 200}

Texts ==
    {[len |-> n, phrases |-> P] :
        n \in TextLengths, P \in {Q \in SUBSET TextPhrases : Cardinality(Q) <= MaxPhrases}}

\* what the image file holds, as far as the detectors distinguish it
Images ==
    {[decodable |-> FALSE, buttons |-> 0, forms |-> 0,
      high_variance |-> FALSE, narrow |-> FALSE]}
    \cup
    [decodable : {TRUE}, buttons : 0..MaxRegions, forms : 0..MaxRegions,
     high_variance : BOOLEAN, narrow : BOOLEAN]

\* what OCR does: PIL cannot open a file that cannot be decoded; a decodable
\* image gives a text, or pytesseract raises
OcrOutcomes(img) ==
    {[raises |-> TRUE, text |-> [len |-> 0, phrases |-> {}]]}
    \cup
    (IF img.decodable
     THEN {[raises |-> FALSE, text |-> t] : t \in {x \in Texts : x.len >= MinLen(x.phrases)}}
     ELSE {})

\* what the external model would do if it were called for the description:
\* the call raises, or it returns a text that holds no fallback marker
LlmOutcomes ==
    {[available |-> FALSE],
     [available |-> TRUE, description |-> [markers |-> {}]]}

(***************************************************************************)
(* GrowthAnalyzer: the idea templates.  An idea is the dict the code       *)
(* builds, reduced to the fields the pipeline reads again after            *)
(* generation: title, category, priority.  The scorer only asks which of   *)
(* seven keywords occur in the lower-cased title; kw holds exactly those   *)
(* (it is computed from the title, it is not a field of the dict).         *)
(***************************************************************************)
EmptyDict == [k \in {} |-> 0]

Truthy(n) == n > 0

_generate_specific_ideas_from_analysis(description, text, ve) ==
    LET buttons == Get(ve, "buttons", 0)
        forms == Get(ve, "forms", 0)
        headlines == Get(ve, "headlines", 0)
        images == Get(ve, "images", 0)
        layout == Get(ve, "layout", EmptyDict)
        colors == Get(ve, "colors", EmptyDict)
    IN  (IF Truthy(buttons) THEN <<
          [title |-> "Optimize Existing CTA Button Copy and Design",
           category |-> "design", priority |-> "high", kw |-> {"cta", "button"}]
        >>
         ELSE <<
          [title |-> "Add Primary CTA Button in Hero Section",
           category |-> "design", priority |-> "high", kw |-> {"cta", "button"}]
        >>)
        \o
        (IF Truthy(forms) THEN <<
          [title |-> "Optimize Form Fields and Reduce Friction",
           category |-> "ux", priority |-> "high", kw |-> {}]
        >>
         ELSE <<
          [title |-> "Add Lead Capture Form Below Hero",
           category |-> "ux", priority |-> "high", kw |-> {}]
        >>)
        \o
        (IF Truthy(headlines) THEN <<
          [title |-> "Rewrite Hero Headline for Better Value Proposition",
           category |-> "copy", priority |-> "high", kw |-> {"value", "headline"}]
        >>
         ELSE <<
          [title |-> "Add Compelling Hero Headline",
           category |-> "copy", priority |-> "high", kw |-> {"headline"}]
        >>)
        \o
        (IF Truthy(images) THEN <<
          [title |-> "Optimize Images for Better Conversion",
           category |-> "design", priority |-> "medium", kw |-> {}]
        >>
         ELSE <<
          [title |-> "Add Customer Photos and Social Proof Images",
           category |-> "social_proof", priority |-> "medium", kw |-> {"social"}]
        >>)
        \o
        (IF Get(layout, "is_mobile", FALSE) THEN <<
          [title |-> "Optimize Mobile Experience and Touch Targets",
           category |-> "ux", priority |-> "high", kw |-> {}]
        >>
         ELSE <<
          [title |-> "Add Mobile-Responsive Design Elements",
           category |-> "technical", priority |-> "medium", kw |-> {}]
        >>)
        \o
        (IF DOMAIN colors # {} THEN <<
          [title |-> "Optimize Color Scheme for Better Conversion",
           category |-> "design", priority |-> "medium", kw |-> {}]
        >>
         ELSE <<>>)
        \o
        <<
          [title |-> "Add Customer Testimonials Section Below Hero",
           category |-> "social_proof", priority |-> "high", kw |-> {"testimonial"}],
          [title |-> "Add Security Badges and Money-Back Guarantee",
           category |-> "trust", priority |-> "medium", kw |-> {}],
          [title |-> "Add Limited-Time Offer with Countdown Timer",
           category |-> "ux", priority |-> "medium", kw |-> {}]
        >>

_generate_learning_platform_ideas(text_lower, ve) ==
    (IF Occurs("masterclass", text_lower) THEN <<
          [title |-> "Change \"Get MasterClass\" to \"Start Learning Today\"",
           category |-> "copy", priority |-> "high", kw |-> {}]
      >> ELSE <<>>)
    \o
    (IF Occurs("learn from the best", text_lower) THEN <<
          [title |-> "Add Specific Instructor Names Below \"LEARN FROM THE BEST\"",
           category |-> "copy", priority |-> "high", kw |-> {}]
      >> ELSE <<>>)
    \o
    (IF Occurs("bite-sized lessons", text_lower) THEN <<
          [title |-> "Add \"Complete a Lesson in 10 Minutes\" Social Proof",
           category |-> "social_proof", priority |-> "high", kw |-> {"social"}]
      >> ELSE <<>>)
    \o
    <<
      [title |-> "Add \"What Do You Want to Learn?\" Quiz",
       category |-> "ux", priority |-> "high", kw |-> {}],
      [title |-> "Add \"Student Success Stories\" Section",
       category |-> "social_proof", priority |-> "high", kw |-> {}],
      [title |-> "Add \"Free Sample Lesson\" CTA",
       category |-> "ux", priority |-> "high", kw |-> {"cta"}],
      [title |-> "Add \"Course Completion Certificates\" Feature",
       category |-> "trust", priority |-> "medium", kw |-> {}]
    >>

_generate_meditation_app_ideas(text_lower, ve) ==
    (IF Occurs("calm", text_lower) THEN <<
          [title |-> "Change \"Try Calm for Free\" to \"Start Your Free Meditation\"",
           category |-> "copy", priority |-> "high", kw |-> {}]
      >> ELSE <<>>)
    \o
    (IF Occurs("calm your mind", text_lower) THEN <<
          [title |-> "Add Specific Benefits Below \"Calm your mind. Change your life.\"",
           category |-> "copy", priority |-> "high", kw |-> {}]
      >> ELSE <<>>)
    \o
    <<
      [title |-> "Add \"7-Day Sleep Challenge\" Free Trial",
       category |-> "ux", priority |-> "high", kw |-> {}],
      [title |-> "Add \"Before/After Sleep Quality\" Testimonials",
       category |-> "social_proof", priority |-> "high", kw |-> {"testimonial"}]
    >>

_generate_ecommerce_ideas(text_lower, ve) ==
    <<
      [title |-> "Add \"Free Shipping\" Badge Near CTAs",
       category |-> "trust", priority |-> "high", kw |-> {"cta"}],
      [title |-> "Add \"Customer Reviews\" Section",
       category |-> "social_proof", priority |-> "high", kw |-> {}]
    >>

_generate_saas_ideas(text_lower, ve) ==
    <<
      [title |-> "Add \"Free Trial\" CTA",
       category |-> "ux", priority |-> "high", kw |-> {"cta"}],
      [title |-> "Add \"How It Works\" Section",
       category |-> "ux", priority |-> "medium", kw |-> {}]
    >>

_generate_generic_specific_ideas(text_lower, ve) ==
    (IF Occurs("free", text_lower) THEN <<
          [title |-> "Optimize \"Free\" Offer Messaging",
           category |-> "copy", priority |-> "high", kw |-> {}]
      >> ELSE <<>>)
    \o
    (IF Occurs("get", text_lower) \/ Occurs("start", text_lower) THEN <<
          [title |-> "Improve CTA Button Copy",
           category |-> "copy", priority |-> "high", kw |-> {"cta", "button"}]
      >> ELSE <<>>)

_generate_tactical_fallback_ideas(description, text, ve) ==
    <<
      [title |-> "Add \"As Seen In\" Media Logos Section",
       category |-> "social_proof", priority |-> "medium", kw |-> {}],
      [title |-> "Add \"Join X,XXX+ Customers\" Social Proof",
       category |-> "social_proof", priority |-> "low", kw |-> {"social"}],
      [title |-> "Add \"Free Trial\" or \"Money-Back Guarantee\" Badge",
       category |-> "trust", priority |-> "medium", kw |-> {}],
      [title |-> "Add \"Limited Time\" or \"Exclusive\" Offer",
       category |-> "ux", priority |-> "medium", kw |-> {}],
      [title |-> "Add \"How It Works\" Step-by-Step Section",
       category |-> "ux", priority |-> "low", kw |-> {}],
      [title |-> "Add \"Before/After\" Case Study Section",
       category |-> "social_proof", priority |-> "high", kw |-> {}],
      [title |-> "Add \"FAQ\" Section to Address Objections",
       category |-> "copy", priority |-> "low", kw |-> {}],
      [title |-> "Add \"Live Chat\" or \"Support\" Indicator",
       category |-> "trust", priority |-> "low", kw |-> {}],
      [title |-> "Add \"Mobile-First\" Design Optimization",
       category |-> "technical", priority |-> "medium", kw |-> {}],
      [title |-> "Add \"A/B Testing\" Framework",
       category |-> "technical", priority |-> "medium", kw |-> {}]
    >>

_get_fallback_ideas ==
    <<
      [title |-> "Add Customer Testimonials Section",
       category |-> "social_proof", priority |-> "high", kw |-> {"testimonial"}],
      [title |-> "Optimize Hero Headline",
       category |-> "copy", priority |-> "high", kw |-> {"headline"}],
      [title |-> "Add Trust Badges",
       category |-> "trust", priority |-> "medium", kw |-> {"trust"}],
      [title |-> "Improve CTA Button Design",
       category |-> "design", priority |-> "high", kw |-> {"cta", "button"}],
      [title |-> "Add Urgency Elements",
       category |-> "ux", priority |-> "medium", kw |-> {}],
      [title |-> "Optimize Form Fields",
       category |-> "ux", priority |-> "high", kw |-> {}],
      [title |-> "Add Social Proof Numbers",
       category |-> "social_proof", priority |-> "medium", kw |-> {"social"}],
      [title |-> "Improve Mobile Responsiveness",
       category |-> "technical", priority |-> "high", kw |-> {}],
      [title |-> "Add FAQ Section",
       category |-> "copy", priority |-> "medium", kw |-> {}],
      [title |-> "Implement Exit-Intent Popup",
       category |-> "ux", priority |-> "medium", kw |-> {}],
      [title |-> "Add Video Testimonials",
       category |-> "social_proof", priority |-> "high", kw |-> {"testimonial"}],
      [title |-> "Optimize Page Load Speed",
       category |-> "technical", priority |-> "medium", kw |-> {}],
      [title |-> "Add Money-Back Guarantee",
       category |-> "trust", priority |-> "high", kw |-> {}],
      [title |-> "Create Comparison Table",
       category |-> "copy", priority |-> "medium", kw |-> {}],
      [title |-> "Add Live Chat Support",
       category |-> "ux", priority |-> "medium", kw |-> {}],
      [title |-> "Optimize Above-the-Fold Content",
       category |-> "layout", priority |-> "high", kw |-> {}],
      [title |-> "Add Social Media Proof",
       category |-> "social_proof", priority |-> "low", kw |-> {"social"}],
      [title |-> "Implement A/B Testing Framework",
       category |-> "technical", priority |-> "high", kw |-> {}],
      [title |-> "Add Progress Indicators",
       category |-> "ux", priority |-> "medium", kw |-> {}],
      [title |-> "Optimize for Voice Search",
       category |-> "technical", priority |-> "low", kw |-> {}]
    >>

(***************************************************************************)
(* GrowthAnalyzer: the stages of the pipeline.                             *)
(***************************************************************************)
\* seq[:n]
Slice(seq, n) ==
    IF n >= 0 THEN SubSeq(seq, 1, Min(n, Len(seq)))
    ELSE SubSeq(seq, 1, Max(0, Len(seq) + n))

_extract_visual_elements(img) ==
    IF ~img.decodable THEN EmptyDict
    ELSE [buttons |-> img.buttons,
          forms |-> img.forms,
          headlines |-> 1,
          images |-> IF img.high_variance THEN 1 ELSE 0,
          layout |-> [dimensions |-> [width |-> TRUE, height |-> TRUE],
                      is_mobile |-> img.narrow],
          colors |-> [color_count |-> 5]]

\* a placeholder of one character more
placeholder_text_longer == [len |-> 51, phrases |-> {}]

\* "Landing page content - text extraction unavailable": 50 characters, none
\* of the substrings the generators search for
placeholder_text == [len |-> 50, phrases |-> {}]

_extract_text(o) == IF o.raises THEN placeholder_text ELSE o.text

\* A description is carried as the set of fallback-marker phrases that occur
\* in its lower-cased text; no stage reads anything else of it.
fallback_indicators ==
    {"enhanced landing page analysis", "desktop layout detected",
     "page structure: unknownxunknown", "fallback analysis"}

\* the except branch building a text that names the page size only
heuristic_description_unmarked(ve) ==
    LET layout == Get(ve, "layout", EmptyDict)
        dimensions == Get(layout, "dimensions", EmptyDict)
    IN  [markers |-> IF "width" \notin DOMAIN dimensions
                        /\ "height" \notin DOMAIN dimensions
                     THEN {"page structure: unknownxunknown"} ELSE {}]

\* the text the except branch of _generate_image_description builds
heuristic_description(ve) ==
    LET layout == Get(ve, "layout", EmptyDict)
        dimensions == Get(layout, "dimensions", EmptyDict)
    IN  [markers |-> {"enhanced landing page analysis"}
                     \cup (IF "width" \notin DOMAIN dimensions
                              /\ "height" \notin DOMAIN dimensions
                           THEN {"page structure: unknownxunknown"} ELSE {})]

\* The try block, lines 366-474.  PIL cannot open a file that cannot be
\* decoded (line 375); base64 is used at line 394 and is not imported, so the
\* block raises NameError before the model is called at line 446, whatever
\* the model would have replied.
assisted_description(img, reply) ==
    IF ~img.decodable THEN [raised |-> TRUE, error |-> "UnidentifiedImageError"]
    ELSE [raised |-> TRUE, error |-> "NameError"]

\* The handler prints an emoji first, which raises UnicodeEncodeError out of
\* the method when stdout cannot encode it, and then extracts the visual
\* elements again to describe them.
_generate_image_description(img, emoji, reply) ==
    LET r == assisted_description(img, reply)
    IN  IF ~r.raised THEN r @@ [calls |-> <<>>]
        ELSE IF ~emoji THEN [raised |-> TRUE, error |-> "UnicodeEncodeError", calls |-> <<>>]
        ELSE [raised |-> FALSE,
              value |-> heuristic_description(_extract_visual_elements(img)),
              calls |-> <<"_extract_visual_elements">>]

AnyOccurs(indicators, text_lower) == \E n \in indicators : Occurs(n, text_lower)

meditation_indicators ==
    {"calm", "meditation", "sleep", "relaxation", "mindfulness", "stress", "anxiety"}
learning_indicators ==
    {"learn", "masterclass", "course", "lesson", "education", "skill", "training",
     "instructor", "teacher"}
ecommerce_indicators ==
    {"shop", "buy", "purchase", "product", "store", "cart", "checkout", "price", "sale"}
saas_indicators ==
    {"software", "app", "platform", "tool", "solution", "service", "subscription",
     "trial"}

\* how many entries of an indicator list occur in the text
Hits(indicators, text_lower) ==
    Cardinality({n \in indicators : Occurs(n, text_lower)})

\* _identify_business_type choosing the list with the most hits, ties in
\* the order of the lists
_identify_business_type_most_hits(text_lower) ==
    LET m == Hits(meditation_indicators, text_lower)
        l == Hits(learning_indicators, text_lower)
        e == Hits(ecommerce_indicators, text_lower)
        a == Hits(saas_indicators, text_lower)
    IN  IF m + l + e + a = 0 THEN "generic"
        ELSE IF m >= l /\ m >= e /\ m >= a THEN "meditation_app"
        ELSE IF l >= e /\ l >= a THEN "learning_platform"
        ELSE IF e >= a THEN "ecommerce"
        ELSE "saas"

_identify_business_type(text_lower) ==
    IF AnyOccurs(meditation_indicators, text_lower) THEN "meditation_app"
    ELSE IF AnyOccurs(learning_indicators, text_lower) THEN "learning_platform"
    ELSE IF AnyOccurs(ecommerce_indicators, text_lower) THEN "ecommerce"
    ELSE IF AnyOccurs(saas_indicators, text_lower) THEN "saas"
    ELSE "generic"

\* _generate_specific_ideas_from_text with the tactical templates in front
_generate_specific_ideas_from_text_tactical_first(text, ve) ==
    LET text_lower == text
        identified == _identify_business_type(text_lower)
        specific ==
            IF identified = "meditation_app"
                THEN _generate_meditation_app_ideas(text_lower, ve)
            ELSE IF identified = "learning_platform"
                THEN _generate_learning_platform_ideas(text_lower, ve)
            ELSE IF identified = "ecommerce"
                THEN _generate_ecommerce_ideas(text_lower, ve)
            ELSE IF identified = "saas"
                THEN _generate_saas_ideas(text_lower, ve)
            ELSE _generate_generic_specific_ideas(text_lower, ve)
    IN  IF Len(specific) < 20
        THEN Slice(_generate_tactical_fallback_ideas("", text, ve), 20 - Len(specific))
             \o specific
        ELSE specific

_generate_specific_ideas_from_text(text, ve) ==
    LET text_lower == text
        identified == _identify_business_type(text_lower)
        specific ==
            IF identified = "meditation_app"
                THEN _generate_meditation_app_ideas(text_lower, ve)
            ELSE IF identified = "learning_platform"
                THEN _generate_learning_platform_ideas(text_lower, ve)
            ELSE IF identified = "ecommerce"
                THEN _generate_ecommerce_ideas(text_lower, ve)
            ELSE IF identified = "saas"
                THEN _generate_saas_ideas(text_lower, ve)
            ELSE _generate_generic_specific_ideas(text_lower, ve)
    IN  IF Len(specific) < 20
        THEN specific \o Slice(_generate_tactical_fallback_ideas("", text, ve),
                               20 - Len(specific))
        ELSE specific

\* Lines 559-678, the try block behind the marker check: the prompt is built
\* and line 627 calls self.client, an attribute __init__ never sets.
assisted_ideas(description, text, ve) ==
    [raised |-> TRUE, error |-> "AttributeError"]

\* the handler answering with the hard-fallback pool
_generate_cro_ideas_handler_hard_fallback(description, text, ve, emoji) ==
    [raised |-> FALSE, value |-> _get_fallback_ideas, business_type |-> None]

\* Lines 680-684, the handler of the try block: its first print holds an
\* emoji and raises UnicodeEncodeError out of the method when stdout cannot
\* encode it; otherwise the templates of the visual analysis are returned.
_generate_cro_ideas_handler(description, text, ve, emoji) ==
    IF ~emoji THEN [raised |-> TRUE, error |-> "UnicodeEncodeError"]
    ELSE [raised |-> FALSE,
          value |-> _generate_specific_ideas_from_analysis(description, text, ve),
          business_type |-> None]

\* The first print of the try block (line 540) holds an emoji: without an
\* emoji-capable stdout the block raises at once.  With a description of the
\* heuristic tier the templates are returned.  Any other description reaches
\* self.client at line 627: AttributeError.
\* _generate_cro_ideas taking any non-empty text for meaningful
_generate_cro_ideas_any_text(description, text, ve, emoji) ==
    IF ~emoji
    THEN _generate_cro_ideas_handler(description, text, ve, emoji) @@ [calls |-> <<>>]
    ELSE IF "enhanced landing page analysis" \in description.markers
            \/ "desktop layout detected" \in description.markers
         THEN IF text.len > 0
              THEN [raised |-> FALSE,
                    value |-> _generate_specific_ideas_from_text(text, ve),
                    business_type |-> _identify_business_type(text),
                    calls |-> <<>>]
              ELSE [raised |-> FALSE,
                    value |-> _generate_specific_ideas_from_analysis(description, text, ve),
                    business_type |-> None,
                    calls |-> <<>>]
         ELSE LET r == assisted_ideas(description, text, ve)
              IN  IF r.raised
                  THEN _generate_cro_ideas_handler(description, text, ve, emoji)
                       @@ [calls |-> <<"client.chat.completions.create">>]
                  ELSE [raised |-> FALSE, value |-> r.value, business_type |-> None,
                        calls |-> <<"client.chat.completions.create">>]

\* business_type is what _identify_business_type returned if the call got as
\* far as line 947, None if it did not; calls holds the model call of line
\* 627 if the call got as far as that line.
_generate_cro_ideas(description, text, ve, emoji) ==
    IF ~emoji
    THEN _generate_cro_ideas_handler(description, text, ve, emoji) @@ [calls |-> <<>>]
    ELSE IF "enhanced landing page analysis" \in description.markers
            \/ "desktop layout detected" \in description.markers
         THEN IF text.len > 0 /\ text.len > 50
              THEN [raised |-> FALSE,
                    value |-> _generate_specific_ideas_from_text(text, ve),
                    business_type |-> _identify_business_type(text),
                    calls |-> <<>>]
              ELSE [raised |-> FALSE,
                    value |-> _generate_specific_ideas_from_analysis(description, text, ve),
                    business_type |-> None,
                    calls |-> <<>>]
         ELSE LET r == assisted_ideas(description, text, ve)
              IN  IF r.raised
                  THEN _generate_cro_ideas_handler(description, text, ve, emoji)
                       @@ [calls |-> <<"client.chat.completions.create">>]
                  ELSE [raised |-> FALSE, value |-> r.value, business_type |-> None,
                        calls |-> <<"client.chat.completions.create">>]

\* _get_ice_data claiming no case studies
_get_ice_data_no_case_studies(idea) ==
    LET category == Get(idea, "category", "general")
        title == idea.kw
    IN  [affects_value_proposition |->
             "value" \in title \/ "headline" \in title \/ category = "copy",
         affects_cta |-> "cta" \in title \/ "button" \in title \/ category = "design",
         affects_trust |->
             "trust" \in title \/ "testimonial" \in title \/ category = "trust",
         affects_social_proof |->
             "social" \in title \/ "testimonial" \in title \/ category = "social_proof",
         has_case_studies |-> FALSE,
         case_study_count |-> IF category \in {"social_proof", "trust"} THEN 3 ELSE 2,
         follows_best_practices |-> TRUE,
         industry_standard |-> TRUE,
         reasoning_strength |-> IF category \in {"social_proof", "trust"} THEN 80 ELSE 70,
         complexity |-> IF category = "copy" THEN "low"
                        ELSE IF category = "design" THEN "medium" ELSE "high",
         dev_time_days |-> IF category = "copy" THEN 1
                           ELSE IF category = "design" THEN 3 ELSE 5,
         requires_design |-> category = "design",
         requires_copywriting |-> category = "copy",
         requires_ab_testing |-> TRUE,
         requires_user_research |-> category = "ux"]

_get_ice_data(idea) ==
    LET category == Get(idea, "category", "general")
        title == idea.kw
    IN  [affects_value_proposition |->
             "value" \in title \/ "headline" \in title \/ category = "copy",
         affects_cta |-> "cta" \in title \/ "button" \in title \/ category = "design",
         affects_trust |->
             "trust" \in title \/ "testimonial" \in title \/ category = "trust",
         affects_social_proof |->
             "social" \in title \/ "testimonial" \in title \/ category = "social_proof",
         has_case_studies |-> TRUE,
         case_study_count |-> IF category \in {"social_proof", "trust"} THEN 3 ELSE 2,
         follows_best_practices |-> TRUE,
         industry_standard |-> TRUE,
         reasoning_strength |-> IF category \in {"social_proof", "trust"} THEN 80 ELSE 70,
         complexity |-> IF category = "copy" THEN "low"
                        ELSE IF category = "design" THEN "medium" ELSE "high",
         dev_time_days |-> IF category = "copy" THEN 1
                           ELSE IF category = "design" THEN 3 ELSE 5,
         requires_design |-> category = "design",
         requires_copywriting |-> category = "copy",
         requires_ab_testing |-> TRUE,
         requires_user_research |-> category = "ux"]

\* sorted(ideas, key=lambda x: x.get('ice_score', 0), reverse=True): a stable
\* sort, elements with equal keys keep their order.
SortKey(x) == Get(x, "ice_score", 0)

RECURSIVE InsertByKey(_, _)
InsertByKey(sorted, x) ==
    IF sorted = <<>> THEN <<x>>
    ELSE IF SortKey(sorted[Len(sorted)]) >= SortKey(x) THEN Append(sorted, x)
    ELSE Append(InsertByKey(SubSeq(sorted, 1, Len(sorted) - 1), x),
                sorted[Len(sorted)])

RECURSIVE sort_ideas_by_priority(_)
sort_ideas_by_priority(list) ==
    IF list = <<>> THEN <<>>
    ELSE InsertByKey(sort_ideas_by_priority(SubSeq(list, 1, Len(list) - 1)),
                     list[Len(list)])

\* the pass of the loop numbering the ideas from 0
ScoredIdea_zero_based(idea, i, up) ==
    LET ice_data == _get_ice_data(idea)
        s == score_idea(ice_data, up)
    IN  [id |-> i,
         title |-> idea.title,
         category |-> Get(idea, "category", "general"),
         priority |-> Get(idea, "priority", "medium"),
         ice |-> [impact |-> s.impact, confidence |-> s.confidence,
                  effort |-> s.effort, score |-> s.ice_score],
         estimated_lift |-> s.estimated_lift,
         implementation_time |-> s.implementation_time]

\* one pass of the loop of _score_ideas_with_ice; i is the 0-based index, and
\* the id 'idea_<n>' is carried as the number n
ScoredIdea(idea, i, up) ==
    LET ice_data == _get_ice_data(idea)
        s == score_idea(ice_data, up)
    IN  [id |-> i + 1,
         title |-> idea.title,
         category |-> Get(idea, "category", "general"),
         priority |-> Get(idea, "priority", "medium"),
         ice |-> [impact |-> s.impact, confidence |-> s.confidence,
                  effort |-> s.effort, score |-> s.ice_score],
         estimated_lift |-> s.estimated_lift,
         implementation_time |-> s.implementation_time]

\* line 1614: the scores an idea gets when its scoring raises
default_ice == [impact |-> 500, confidence |-> 500, effort |-> 500, score |-> 500]

\* An element of the list that is no dict (a string, a number, None) is
\* carried as the record [no_dict |-> its type]: it has no get().
IsDict(idea) == "no_dict" \notin DOMAIN idea

\* lines 1571-1599, the try block of one pass: _get_ice_data catches what it
\* raises and score_idea gets complete data, so that only idea.get can raise
TryScore(idea, i, up) ==
    IF IsDict(idea) THEN [raised |-> FALSE, value |-> ScoredIdea(idea, i, up)]
    ELSE [raised |-> TRUE, error |-> "AttributeError"]

\* lines 1601-1618, the handler of one pass: the default scores, on fields
\* read with idea.get again
DefaultScore(idea, i) ==
    IF IsDict(idea)
    THEN [raised |-> FALSE,
          value |-> [id |-> i + 1,
                     title |-> idea.title,
                     category |-> Get(idea, "category", "general"),
                     priority |-> Get(idea, "priority", "medium"),
                     ice |-> default_ice,
                     estimated_lift |-> "5-10% conversion increase",
                     implementation_time |-> "3-5 days"]]
    ELSE [raised |-> TRUE, error |-> "AttributeError"]

\* lines 1561-1622: what raises out of a handler raises out of the method
score_ideas_loop(list, up) ==
    LET pass(i) == LET t == TryScore(list[i], i - 1, up)
                   IN  IF t.raised THEN DefaultScore(list[i], i - 1) ELSE t
    IN  IF \E i \in 1..Len(list) : pass(i).raised
        THEN [raised |-> TRUE, error |-> "AttributeError"]
        ELSE [raised |-> FALSE,
              value |-> sort_ideas_by_priority([i \in 1..Len(list) |-> pass(i).value])]

\* the list _score_ideas_with_ice returns for a list of dicts, where no
\* pass raises
_score_ideas_with_ice(list, up) ==
    sort_ideas_by_priority([i \in 1..Len(list) |-> ScoredIdea(list[i], i - 1, up)])

RECURSIVE SumOver(_, _)
\* sum(i.get('ice', {}).get(field, 5) for i in ideas)
SumOver(list, field) ==
    IF list = <<>> THEN 0
    ELSE Get(Get(list[1], "ice", EmptyDict), field, 500) + SumOver(Tail(list), field)

Average1(list, field, up) ==
    LET total == SumOver(list, field)
        exact == /\ \A i \in 1..Len(list) :
                        Get(Get(list[i], "ice", EmptyDict), field, 500) % 25 = 0
                 /\ IsDyadic(total, Len(list), 100)
    IN  10 * RoundDiv(total, 10 * Len(list), exact, up)

\* _generate_summary without the guard for the empty list, the averages of
\* nothing taken as 0
_generate_summary_unguarded(list, up) ==
    [total_ideas |-> Len(list),
     high_priority_ideas |->
         Cardinality({i \in 1..Len(list) : Get(list[i], "priority", None) = "high"}),
     average_impact |-> IF list = <<>> THEN 0 ELSE Average1(list, "impact", up),
     average_effort |-> IF list = <<>> THEN 0 ELSE Average1(list, "effort", up),
     estimated_total_lift |-> "10-25% conversion increase"]

_generate_summary(list, up) ==
    IF list = <<>> THEN EmptyDict
    ELSE [total_ideas |-> Len(list),
          high_priority_ideas |->
              Cardinality({i \in 1..Len(list) : Get(list[i], "priority", None) = "high"}),
          average_impact |-> Average1(list, "impact", up),
          average_effort |-> Average1(list, "effort", up),
          estimated_total_lift |-> "10-25% conversion increase"]

\* _is_ai_analysis_working looking for the marker of the exception path only
_is_ai_analysis_working_failure_only(description) ==
    "fallback analysis" \notin description.markers

_is_ai_analysis_working(description) ==
    ~ \E indicator \in fallback_indicators : indicator \in description.markers

(***************************************************************************)
(* analyze_landing_page, lines 172-208: the summary, the result dict and   *)
(* the final safety check.                                                 *)
(***************************************************************************)
\* build_result keeping the summary of line 174 after the top-up of line 204
build_result_stale_summary(scored, ve, text, description, up) ==
    LET metadata == [visual_elements |-> ve,
                     extracted_text |-> text,
                     image_description |-> description,
                     ai_analysis_working |-> _is_ai_analysis_working(description)]
        scored_fallback == _score_ideas_with_ice(_get_fallback_ideas, up)
        scored_tactical ==
            _score_ideas_with_ice(_generate_tactical_fallback_ideas(description, text, ve), up)
    IN  IF scored = <<>>
        THEN [ideas |-> scored_fallback,
              summary |-> _generate_summary(scored_fallback, up),
              metadata |-> metadata]
        ELSE [ideas |-> IF Len(scored) < 20
                        THEN scored \o Slice(scored_tactical, 20 - Len(scored))
                        ELSE scored,
              summary |-> _generate_summary(scored, up),
              metadata |-> metadata]

build_result(scored, ve, text, description, up) ==
    LET metadata == [visual_elements |-> ve,
                     extracted_text |-> text,
                     image_description |-> description,
                     ai_analysis_working |-> _is_ai_analysis_working(description)]
        scored_fallback == _score_ideas_with_ice(_get_fallback_ideas, up)
        scored_tactical ==
            _score_ideas_with_ice(_generate_tactical_fallback_ideas(description, text, ve), up)
        additional_needed == 20 - Len(scored)
        topped_up == scored \o Slice(scored_tactical, additional_needed)
    IN  IF scored = <<>>
        THEN [ideas |-> scored_fallback,
              summary |-> _generate_summary(scored_fallback, up),
              metadata |-> metadata]
        ELSE IF Len(scored) < 20
        THEN [ideas |-> topped_up,
              summary |-> _generate_summary(topped_up, up),
              metadata |-> metadata]
        ELSE [ideas |-> scored,
              summary |-> _generate_summary(scored, up),
              metadata |-> metadata]

\* the except branch answering with the generator's own templates and the
\* metadata of a normal run
exception_result_unmarked(e, up) ==
    LET scored == _score_ideas_with_ice(
                      _generate_specific_ideas_from_analysis(
                          [markers |-> {"fallback analysis"}], placeholder_text, EmptyDict),
                      up)
    IN  [ideas |-> scored,
         summary |-> _generate_summary(scored, up),
         metadata |-> [visual_elements |-> EmptyDict,
                       extracted_text |-> "Analysis failed, using fallback ideas",
                       image_description |-> [markers |-> {"fallback analysis"}],
                       ai_analysis_working |-> FALSE]]

\* lines 210-229
exception_result(e, up) ==
    LET scored_fallback == _score_ideas_with_ice(_get_fallback_ideas, up)
    IN  [ideas |-> scored_fallback,
         summary |-> _generate_summary(scored_fallback, up),
         metadata |-> [visual_elements |-> EmptyDict,
                       extracted_text |-> "Analysis failed, using fallback ideas",
                       image_description |-> [markers |-> {"fallback analysis"}],
                       ai_analysis_working |-> FALSE,
                       error |-> e]]

(***************************************************************************)
(* Specification Spec: one run of analyze_landing_page on one image.       *)
(***************************************************************************)
Init ==
    /\ pc = "start"
    /\ image \in Images
    /\ ocr \in OcrOutcomes(image)
    /\ console_emoji \in BOOLEAN
    /\ llm \in LlmOutcomes
    /\ business_type = None
    /\ idea_data = None /\ ice_scores = None
    /\ visual_elements = None /\ extracted_text = None
    /\ image_description = None /\ ideas = None /\ scored_ideas = None
    /\ exception = None /\ result = None
    /\ calls = <<>>

ExtractVisualElements ==
    /\ pc = "start"
    /\ visual_elements' = _extract_visual_elements(image)
    /\ calls' = Append(calls, "_extract_visual_elements")
    /\ pc' = "text"
    /\ UNCHANGED <<scoreVars, inputVars, business_type, extracted_text, image_description,
                   ideas, scored_ideas, exception, result>>

ExtractText ==
    /\ pc = "text"
    /\ extracted_text' = _extract_text(ocr)
    /\ pc' = "describe"
    /\ UNCHANGED <<scoreVars, inputVars, calls, business_type, visual_elements, image_description,
                   ideas, scored_ideas, exception, result>>

GenerateImageDescription ==
    /\ pc = "describe"
    /\ LET r == _generate_image_description(image, console_emoji, llm)
       IN  /\ calls' = calls \o r.calls
           /\ IF r.raised
              THEN /\ exception' = r.error
                   /\ pc' = "except"
                   /\ UNCHANGED image_description
              ELSE /\ image_description' = r.value
                   /\ pc' = "ideas"
                   /\ UNCHANGED exception
    /\ UNCHANGED <<scoreVars, inputVars, business_type, visual_elements, extracted_text,
                   ideas, scored_ideas, result>>

\* lines 152-165: the generator, and the fallback pool when it returns nothing
GenerateCroIdeas ==
    /\ pc = "ideas"
    /\ LET r == _generate_cro_ideas(image_description, extracted_text,
                                    visual_elements, console_emoji)
       IN  /\ calls' = calls \o r.calls
           /\ IF r.raised
              THEN /\ exception' = r.error
                   /\ pc' = "except"
                   /\ UNCHANGED <<ideas, business_type>>
              ELSE /\ ideas' = IF r.value = <<>> THEN _get_fallback_ideas ELSE r.value
                   /\ business_type' = r.business_type
                   /\ pc' = "score"
                   /\ UNCHANGED exception
    /\ UNCHANGED <<scoreVars, inputVars, localVars, scored_ideas, result>>

ScoreIdeasWithIce ==
    /\ pc = "score"
    /\ \E up \in BOOLEAN : scored_ideas' = _score_ideas_with_ice(ideas, up)
    /\ pc' = "result"
    /\ UNCHANGED <<scoreVars, inputVars, calls, localVars, business_type, ideas, exception, result>>

BuildResult ==
    /\ pc = "result"
    /\ \E up \in BOOLEAN :
          result' = build_result(scored_ideas, visual_elements, extracted_text,
                                 image_description, up)
    /\ pc' = "done"
    /\ UNCHANGED <<scoreVars, inputVars, calls, localVars, business_type, ideas, scored_ideas,
                   exception>>

HandleException ==
    /\ pc = "except"
    /\ \E up \in BOOLEAN : result' = exception_result(exception, up)
    /\ pc' = "done"
    /\ UNCHANGED <<scoreVars, inputVars, calls, localVars, business_type, ideas, scored_ideas,
                   exception>>

Next ==
    \/ ExtractVisualElements
    \/ ExtractText
    \/ GenerateImageDescription
    \/ GenerateCroIdeas
    \/ ScoreIdeasWithIce
    \/ BuildResult
    \/ HandleException

Spec == Init /\ [][Next]_vars

(***************************************************************************)
(* Specification SpecBatch: _score_ideas_with_ice and _generate_summary    *)
(* applied to an arbitrary list of idea dicts, the empty list included.    *)
(* The ideas are templates of the pools and dicts with missing keys, as    *)
(* the line parser produces them, and an element that is no dict.          *)
(***************************************************************************)
MaxIdeas == 3

BatchIdeas ==
    {[title |-> "Optimize Hero Headline",
      category |-> "copy", priority |-> "high", kw |-> {"headline"}],
     [title |-> "Improve CTA Button Design",
      category |-> "design", priority |-> "high", kw |-> {"cta", "button"}],
     [title |-> "Add Urgency Elements",
      category |-> "ux", priority |-> "medium", kw |-> {}],
     [title |-> "Add Customer Testimonials Section",
      category |-> "social_proof", priority |-> "high", kw |-> {"testimonial"}],
     [title |-> "Optimize Above-the-Fold Content",
      category |-> "layout", priority |-> "high", kw |-> {}],
     [title |-> "Optimize for Voice Search",
      category |-> "technical", priority |-> "low", kw |-> {}],
     [title |-> "Add Trust Badges", category |-> "trust", kw |-> {"trust"}],
     [title |-> "Add FAQ Section", kw |-> {}],
     [no_dict |-> "str"]}

IdeaLists == UNION {[1..n -> BatchIdeas] : n \in 0..MaxIdeas}

InitBatch ==
    /\ pc = "batch_input"
    /\ ideas \in IdeaLists
    /\ idea_data = None /\ ice_scores = None
    /\ image = None /\ ocr = None /\ console_emoji = None /\ llm = None
    /\ business_type = None
    /\ visual_elements = None /\ extracted_text = None
    /\ image_description = None /\ scored_ideas = None
    /\ exception = None /\ result = None
    /\ calls = <<>>

ScoreBatch ==
    /\ pc = "batch_input"
    /\ \E up \in BOOLEAN :
          LET r == score_ideas_loop(ideas, up)
          IN  IF r.raised
              THEN /\ exception' = r.error
                   /\ pc' = "batch_raised"
                   /\ UNCHANGED scored_ideas
              ELSE /\ scored_ideas' = r.value
                   /\ pc' = "batch_scored"
                   /\ UNCHANGED exception
    /\ UNCHANGED <<scoreVars, inputVars, calls, localVars, business_type, ideas, result>>

SummarizeBatch ==
    /\ pc = "batch_scored"
    /\ \E up \in BOOLEAN : result' = _generate_summary(scored_ideas, up)
    /\ pc' = "batch_done"
    /\ UNCHANGED <<scoreVars, inputVars, calls, localVars, business_type, ideas, scored_ideas,
                   exception>>

NextBatch == ScoreBatch \/ SummarizeBatch

SpecBatch == InitBatch /\ [][NextBatch]_vars

(***************************************************************************)
(* GrowthAnalyzer: the handling of the model's reply, lines 637-678, and   *)
(* the specificity filter.  An idea of a reply is the dict the reply       *)
(* holds, with its title and description as strings; the filter only asks  *)
(* which of its terms occur in the lower-cased strings, and TermsIn lists   *)
(* them for the strings of a small vocabulary.                             *)
(***************************************************************************)
MaxReplyIdeas == 2
MaxReplyLines == 3
MaxLongReply == 20

specific_indicators ==
    {"hero", "headline", "cta", "button", "form", "testimonial", "review",
     "pricing", "feature", "benefit", "value proposition", "trust signal",
     "social proof", "guarantee", "security", "mobile", "responsive",
     "navigation", "menu", "footer", "header", "above the fold", "section",
     "image", "photo", "logo", "brand", "color", "layout", "design"}

generic_phrases ==
    {"improve conversion", "increase sales", "better user experience",
     "optimize website", "enhance performance", "boost revenue"}

AllGeneric ==
    "Improve conversion, increase sales, better user experience, optimize website, enhance performance, boost revenue"

FiveGeneric ==
    "Improve conversion, increase sales, better user experience, optimize website, boost revenue"

\* the terms of the two lists that occur in str.lower(), for the strings
\* "", "Grow faster" and those below; "performance" holds "form"
TermsIn(str) ==
    IF str = "Make the hero button larger" THEN {"hero", "button"} ELSE
    IF str = "Improve conversion" THEN {"improve conversion"} ELSE
    IF str = "Enhance performance" THEN {"enhance performance", "form"} ELSE
    IF str = AllGeneric THEN generic_phrases \cup {"form"} ELSE
    IF str = FiveGeneric THEN generic_phrases \ {"enhance performance"} ELSE
    {}

\* the filter rejecting an idea as soon as one generic phrase occurs
_is_idea_specific_to_image_any_generic(idea, description, text, ve) ==
    LET title == TermsIn(Get(idea, "title", ""))
        descr == TermsIn(Get(idea, "description", ""))
        has_specific_reference ==
            \E indicator \in specific_indicators :
                indicator \in title \/ indicator \in descr
        is_not_generic ==
            ~ \E phrase \in generic_phrases : phrase \in title \/ phrase \in descr
    IN  has_specific_reference /\ is_not_generic

_is_idea_specific_to_image(idea, description, text, ve) ==
    LET title == TermsIn(Get(idea, "title", ""))
        descr == TermsIn(Get(idea, "description", ""))
        has_specific_reference ==
            \E indicator \in specific_indicators :
                indicator \in title \/ indicator \in descr
        is_not_generic ==
            ~ \A phrase \in generic_phrases : phrase \in title \/ phrase \in descr
    IN  has_specific_reference /\ is_not_generic

\* [idea for idea in list if self._is_idea_specific_to_image(idea, ...)]
SpecificOnly(list, description, text, ve) ==
    SelectSeq(list, LAMBDA idea : _is_idea_specific_to_image(idea, description, text, ve))

\* current_idea[k] = v
SetKey(d, k, v) == [x \in DOMAIN d \cup {k} |-> IF x = k THEN v ELSE d[x]]

RECURSIVE ParseLines(_, _, _)
\* the loop of _parse_ideas_manually over the stripped lines; a line is its
\* leading tag and the text behind it
ParseLines(lines, current_idea, parsed) ==
    IF lines = <<>>
    THEN IF DOMAIN current_idea # {} THEN Append(parsed, current_idea) ELSE parsed
    ELSE LET line == Head(lines)
         IN  IF line.tag = "Title:"
             THEN ParseLines(Tail(lines), [title |-> line.text],
                             IF DOMAIN current_idea # {}
                             THEN Append(parsed, current_idea) ELSE parsed)
             ELSE IF line.tag = "Description:"
             THEN ParseLines(Tail(lines), SetKey(current_idea, "description", line.text),
                             parsed)
             ELSE IF line.tag = "Hypothesis:"
             THEN ParseLines(Tail(lines), SetKey(current_idea, "hypothesis", line.text),
                             parsed)
             ELSE IF line.tag = "Category:"
             THEN ParseLines(Tail(lines), SetKey(current_idea, "category", line.text),
                             parsed)
             ELSE ParseLines(Tail(lines), current_idea, parsed)

_parse_ideas_manually(content) == ParseLines(content, EmptyDict, <<>>)

\* lines 717-746: the second call of the model; whatever raises gives []
_generate_additional_specific_ideas(reply, description, text, ve) ==
    IF reply.raises THEN <<>>
    ELSE SpecificOnly(reply.ideas, description, text, ve)

\* parse_reply asking for the additional batch whenever fewer than 20 ideas
\* passed the filter
parse_reply_additional_below_twenty(reply, description, text, ve) ==
    IF reply.kind = "json_list"
    THEN LET specific_ideas == SpecificOnly(reply.ideas, description, text, ve)
             with_additional ==
                 IF Len(specific_ideas) < 20
                 THEN specific_ideas \o
                      _generate_additional_specific_ideas(reply.additional,
                                                          description, text, ve)
                 ELSE specific_ideas
             tactical_fallbacks == _generate_tactical_fallback_ideas(description, text, ve)
         IN  [raised |-> FALSE,
              value |-> IF Len(with_additional) < 20
                        THEN with_additional \o
                             Slice(tactical_fallbacks, 20 - Len(with_additional))
                        ELSE with_additional,
              calls |-> (IF Len(specific_ideas) < 20
                         THEN <<"_generate_additional_specific_ideas">> ELSE <<>>)
                        \o (IF Len(with_additional) < 20
                            THEN <<"_generate_tactical_fallback_ideas">> ELSE <<>>)]
    ELSE IF reply.kind = "json_other"
    THEN [raised |-> TRUE, error |-> "AttributeError", calls |-> <<>>]
    ELSE [raised |-> FALSE,
          value |-> SpecificOnly(_parse_ideas_manually(reply.lines), description, text, ve),
          calls |-> <<"_parse_ideas_manually">>]

\* lines 643-678: the reply is parsed as JSON and filtered, topped up with
\* the additional batch below 15 ideas and with tactical templates below 20;
\* a reply that is JSON but no list of dicts raises out of the inner try; a
\* reply that is no JSON is parsed line by line and filtered.  calls lists
\* the helpers called on the way (lines 660, 667, 677).
parse_reply(reply, description, text, ve) ==
    IF reply.kind = "json_list"
    THEN LET specific_ideas == SpecificOnly(reply.ideas, description, text, ve)
             with_additional ==
                 IF Len(specific_ideas) < 15
                 THEN specific_ideas \o
                      _generate_additional_specific_ideas(reply.additional,
                                                          description, text, ve)
                 ELSE specific_ideas
             tactical_fallbacks == _generate_tactical_fallback_ideas(description, text, ve)
         IN  [raised |-> FALSE,
              value |-> IF Len(with_additional) < 20
                        THEN with_additional \o
                             Slice(tactical_fallbacks, 20 - Len(with_additional))
                        ELSE with_additional,
              calls |-> (IF Len(specific_ideas) < 15
                         THEN <<"_generate_additional_specific_ideas">> ELSE <<>>)
                        \o (IF Len(with_additional) < 20
                            THEN <<"_generate_tactical_fallback_ideas">> ELSE <<>>)]
    ELSE IF reply.kind = "json_other"
    THEN [raised |-> TRUE, error |-> "AttributeError", calls |-> <<>>]
    ELSE [raised |-> FALSE,
          value |-> SpecificOnly(_parse_ideas_manually(reply.lines), description, text, ve),
          calls |-> <<"_parse_ideas_manually">>]

\* lines 637-684 from the reply on: the print of line 638 holds an emoji
handle_reply(reply, description, text, ve, emoji) ==
    IF ~emoji
    THEN _generate_cro_ideas_handler(description, text, ve, emoji) @@ [calls |-> <<>>]
    ELSE LET r == parse_reply(reply, description, text, ve)
         IN  IF r.raised
             THEN _generate_cro_ideas_handler(description, text, ve, emoji)
                  @@ [calls |-> r.calls]
             ELSE [raised |-> FALSE, value |-> r.value, business_type |-> None,
                   calls |-> r.calls]

(***************************************************************************)
(* Specification SpecGenerator: one call of _generate_cro_ideas, on any    *)
(* description, text and visual elements.                                  *)
(***************************************************************************)
Descriptions ==
    {[markers |-> {}],
     [markers |-> {"desktop layout detected"}],
     [markers |-> {"enhanced landing page analysis"}],
     [markers |-> {"enhanced landing page analysis", "page structure: unknownxunknown"}],
     [markers |-> {"page structure: unknownxunknown"}],
     [markers |-> {"fallback analysis"}]}

InitGenerator ==
    /\ pc = "gen_input"
    /\ image_description \in Descriptions
    /\ extracted_text \in {t \in Texts : t.len >= MinLen(t.phrases)} \cup {placeholder_text}
    /\ visual_elements \in {_extract_visual_elements(img) : img \in Images}
    /\ console_emoji \in BOOLEAN
    /\ idea_data = None /\ ice_scores = None
    /\ image = None /\ ocr = None /\ llm = None
    /\ business_type = None
    /\ ideas = None /\ scored_ideas = None
    /\ exception = None /\ result = None
    /\ calls = <<>>

CallGenerateCroIdeas ==
    /\ pc = "gen_input"
    /\ LET r == _generate_cro_ideas(image_description, extracted_text,
                                    visual_elements, console_emoji)
       IN  /\ calls' = r.calls
           /\ IF r.raised
              THEN /\ exception' = r.error
                   /\ pc' = "gen_raised"
                   /\ UNCHANGED <<ideas, business_type>>
              ELSE /\ ideas' = r.value
                   /\ business_type' = r.business_type
                   /\ pc' = "gen_returned"
                   /\ UNCHANGED exception
    /\ UNCHANGED <<scoreVars, inputVars, localVars, scored_ideas, result>>

NextGenerator == CallGenerateCroIdeas

SpecGenerator == InitGenerator /\ [][NextGenerator]_vars

(***************************************************************************)
(* Specification SpecAssisted: the handling of one reply of the model to   *)
(* the idea prompt, from line 637 on.  (In the program as it stands line   *)
(* 627 raises before a reply exists; this specification is about the code  *)
(* that follows the call.)                                                 *)
(***************************************************************************)
ReplyIdeas ==
    {[title |-> "Make the hero button larger", description |-> ""],
     [title |-> "Improve conversion"],
     [title |-> "Enhance performance", description |-> "Grow faster"],
     [title |-> FiveGeneric, description |-> "Enhance performance"],
     [title |-> AllGeneric],
     [description |-> "Make the hero button larger"],
     [title |-> "Grow faster", description |-> "Make the hero button larger"]}

ReplyIdeaLists(n) == UNION {[1..k -> ReplyIdeas] : k \in 0..n}

AdditionalReplies ==
    {[raises |-> TRUE]}
    \cup {[raises |-> FALSE, ideas |-> l] : l \in ReplyIdeaLists(1)}

ReplyLines ==
    [tag : {"Title:", "Description:", "other"},
     text : {"Make the hero button larger", "Improve conversion", AllGeneric}]

Replies ==
    {[kind |-> "json_list", ideas |-> l, additional |-> a] :
        l \in ReplyIdeaLists(MaxReplyIdeas), a \in AdditionalReplies}
    \cup {[kind |-> "json_list",
            ideas |-> [i \in 1..n |-> [title |-> "Make the hero button larger"]] \o l,
            additional |-> a] :
               n \in 13..MaxLongReply, l \in ReplyIdeaLists(1), a \in AdditionalReplies}
    \cup {[kind |-> "json_other"]}
    \cup {[kind |-> "text", lines |-> l] :
             l \in UNION {[1..k -> ReplyLines] : k \in 0..MaxReplyLines}}

InitAssisted ==
    /\ pc = "reply_received"
    /\ llm \in Replies
    /\ image_description = [markers |-> {}]
    /\ extracted_text = placeholder_text
    /\ visual_elements \in {_extract_visual_elements(img) :
                               img \in {i \in Images : i.buttons = 0 /\ i.forms = 0
                                                        /\ ~i.high_variance /\ ~i.narrow}}
    /\ console_emoji \in BOOLEAN
    /\ idea_data = None /\ ice_scores = None
    /\ image = None /\ ocr = None
    /\ business_type = None
    /\ ideas = None /\ scored_ideas = None
    /\ exception = None /\ result = None
    /\ calls = <<>>

HandleReply ==
    /\ pc = "reply_received"
    /\ LET r == handle_reply(llm, image_description, extracted_text,
                             visual_elements, console_emoji)
       IN  /\ calls' = r.calls
           /\ IF r.raised
              THEN /\ exception' = r.error
                   /\ pc' = "reply_raised"
                   /\ UNCHANGED ideas
              ELSE /\ ideas' = r.value
                   /\ pc' = "reply_handled"
                   /\ UNCHANGED exception
    /\ UNCHANGED <<scoreVars, inputVars, localVars, business_type, scored_ideas, result>>

NextAssisted == HandleReply

SpecAssisted == InitAssisted /\ [][NextAssisted]_vars

(***************************************************************************)
(* Specification SpecTemplates: one call of _generate_cro_ideas, followed   *)
(* either from its first line (the call of line 627 raising, as it does in  *)
(* the program) or from a reply of the model on.                            *)
(***************************************************************************)
InitTemplates == InitGenerator \/ InitAssisted

NextTemplates == CallGenerateCroIdeas \/ HandleReply

SpecTemplates == InitTemplates /\ [][NextTemplates]_vars

(***************************************************************************)
(* Specification SpecClassify: _identify_business_type applied to one      *)
(* lower-cased text.                                                       *)
(***************************************************************************)
MaxClassifyPhrases == 3

ClassifyTexts ==
    {[len |-> 200, phrases |-> P] :
        P \in {Q \in SUBSET TextPhrases : Cardinality(Q) <= MaxClassifyPhrases}}

InitClassify ==
    /\ pc = "classify_input"
    /\ extracted_text \in ClassifyTexts
    /\ idea_data = None /\ ice_scores = None
    /\ image = None /\ ocr = None /\ console_emoji = None /\ llm = None
    /\ business_type = None
    /\ visual_elements = None /\ image_description = None
    /\ ideas = None /\ scored_ideas = None
    /\ exception = None /\ result = None
    /\ calls = <<>>

IdentifyBusinessType ==
    /\ pc = "classify_input"
    /\ business_type' = _identify_business_type(extracted_text)
    /\ pc' = "classified"
    /\ UNCHANGED <<scoreVars, inputVars, calls, localVars, ideas, scored_ideas,
                   exception, result>>

NextClassify == IdentifyBusinessType

SpecClassify == InitClassify /\ [][NextClassify]_vars

(***************************************************************************)
(* Properties                                                              *)
(***************************************************************************)
Returned == pc = "done"

InRange(x) == 100 <= x /\ x <= 1000

\* s is a nearest multiple of `unit` to the quotient n / d
NearestTo(s, n, d, unit) ==
    /\ s % unit = 0
    /\ 2 * (s * d - n) <= d * unit
    /\ 2 * (n - s * d) <= d * unit

SortedByScore(list) ==
    \A i \in 1..Len(list) : \A j \in 1..Len(list) :
        i < j => list[i].ice.score >= list[j].ice.score

\* C1: every run of analyze_landing_page that returns a result returns at
\* least 20 ideas, whatever the stages produced.
C1_AtLeastTwentyIdeas == Returned => Len(result.ideas) >= 20

\* C2: every result holds exactly 20 ideas, never fewer and never more.
C2_ExactlyTwentyIdeas == Returned => Len(result.ideas) = 20

\* C3: the list _score_ideas_with_ice returns and the ideas of every result
\* are ordered by non-increasing ice.score.
C3_SortedByScore ==
    /\ pc = "result" => SortedByScore(scored_ideas)
    /\ Returned => SortedByScore(result.ideas)

\* C4: for every attribute combination calculate_impact, calculate_confidence
\* and calculate_effort return a value in [1,10], and so are the impact,
\* confidence and effort score_idea reports and the default scores.
C4_FactorsInRange ==
    /\ InRange(calculate_impact(idea_data))
    /\ InRange(calculate_confidence(idea_data))
    /\ InRange(calculate_effort(idea_data))
    /\ pc = "scored" =>
          /\ InRange(ice_scores.impact)
          /\ InRange(ice_scores.confidence)
          /\ InRange(ice_scores.effort)
    /\ InRange(default_ice.impact)
    /\ InRange(default_ice.confidence)
    /\ InRange(default_ice.effort)

\* the cap is what keeps the value in range: ux with all four bonuses is
\* 6.5 + 5.5 = 12 before it, and the heaviest effort is 11
C4_Witness ==
    /\ pc = "scored"
    /\ Get(idea_data, "category", "layout") = "ux"
    /\ idea_data.affects_value_proposition /\ idea_data.affects_cta
    /\ idea_data.affects_trust /\ idea_data.affects_social_proof
    /\ ice_scores.impact = 1000

\* C5 as claimed: the reported score is (impact x confidence) / effort
\* rounded to 2 decimals, recomputed from the impact, confidence and effort
\* of the same record, for every attribute combination.
C5_ScoreRecomputableFromRecord ==
    pc = "scored" =>
        NearestTo(ice_scores.ice_score,
                  ice_scores.impact * ice_scores.confidence, ice_scores.effort, 1)

\* C5 as amended: the reported score is (impact x confidence) / effort
\* rounded to 2 decimals of the unrounded factors, and the recomputation from
\* the reported factors gives the same score whenever reasoning_strength is a
\* multiple of 0.05.
C5_ScoreOfUnroundedFactors ==
    pc = "scored" =>
        /\ NearestTo(ice_scores.ice_score,
                     calculate_impact(idea_data) * calculate_confidence(idea_data),
                     calculate_effort(idea_data), 1)
        /\ Get(idea_data, "reasoning_strength", 50) % 5 = 0 =>
              NearestTo(ice_scores.ice_score,
                        ice_scores.impact * ice_scores.confidence,
                        ice_scores.effort, 1)

\* a score that is not a whole number of tenths apart from its factors:
\* reasoning_strength 0.7, confidence 6.4, score rounded at the 2nd decimal
C5_Witness ==
    /\ pc = "scored"
    /\ Get(idea_data, "reasoning_strength", 50) = 70
    /\ ice_scores.confidence = 640
    /\ ice_scores.ice_score % 10 # 0

\* C6: in every result an idea's priority is 'high' iff its score is >= 8.0,
\* 'medium' iff 4.0 <= score < 8.0, 'low' iff score < 4.0.
C6_PriorityFollowsScore ==
    Returned =>
        \A i \in 1..Len(result.ideas) :
            LET idea == result.ideas[i]
            IN  /\ idea.priority = "high" <=> idea.ice.score >= 800
                /\ idea.priority = "medium" <=>
                       (400 <= idea.ice.score /\ idea.ice.score < 800)
                /\ idea.priority = "low" <=> idea.ice.score < 400

C8_Input ==
    [category |-> "ux", affects_value_proposition |-> FALSE, affects_cta |-> TRUE,
     affects_trust |-> FALSE, affects_social_proof |-> FALSE,
     has_case_studies |-> FALSE, follows_best_practices |-> FALSE,
     industry_standard |-> FALSE,
     complexity |-> "low", dev_time_days |-> 1,
     requires_design |-> FALSE, requires_copywriting |-> FALSE,
     requires_ab_testing |-> FALSE, requires_user_research |-> FALSE]

\* C8: for {category ux, complexity low, dev_time_days 1, affects_cta} and
\* nothing else score_idea gives effort 1, confidence 6.0, impact 8.0 and
\* score 48.0: the score is not capped at 10.
C8_ScoreNotCapped ==
    (pc = "scored" /\ idea_data = C8_Input) =>
        /\ ice_scores.effort = 100
        /\ ice_scores.confidence = 600
        /\ ice_scores.impact = 800
        /\ ice_scores.ice_score = 4800

C8_Witness == pc = "scored" /\ idea_data = C8_Input /\ ice_scores.ice_score > 1000

\* C9: _generate_summary of the empty list is the empty mapping.
C9_EmptySummary ==
    (pc = "batch_done" /\ scored_ideas = <<>>) => DOMAIN result = {}

C9_Witness == pc = "batch_done" /\ ideas = <<>> /\ scored_ideas = <<>> /\ result = EmptyDict

\* C10: in every result, on every branch, summary.total_ideas is the length
\* of the returned ideas, high_priority_ideas the number of returned ideas of
\* priority 'high', average_impact and average_effort the means over the
\* returned ideas rounded to 1 decimal.
C10_SummaryOfReturnedIdeas ==
    Returned =>
        LET list == result.ideas
        IN  /\ result.summary.total_ideas = Len(list)
            /\ result.summary.high_priority_ideas =
                   Cardinality({i \in 1..Len(list) : list[i].priority = "high"})
            /\ NearestTo(result.summary.average_impact,
                         SumOver(list, "impact"), Len(list), 10)
            /\ NearestTo(result.summary.average_effort,
                         SumOver(list, "effort"), Len(list), 10)

\* the top-up branch: tactical ideas were appended after the first summary
C10_Witness ==
    /\ Returned
    /\ exception = None
    /\ Len(scored_ideas) < 20
    /\ Len(result.ideas) > Len(scored_ideas)
    /\ result.summary.total_ideas = Len(result.ideas)

MarkersOf(description) == description.markers \cap fallback_indicators

\* C12: in every result metadata.ai_analysis_working is true iff
\* metadata.image_description holds none of the fallback-marker phrases, on
\* the normal return path and on the exception path.
C12_FlagIffNoMarker ==
    Returned =>
        (result.metadata.ai_analysis_working
            <=> MarkersOf(result.metadata.image_description) = {})

\* the exception path, where flag and description are both literals
C12_Witness ==
    /\ Returned
    /\ exception # None
    /\ MarkersOf(result.metadata.image_description) = {"fallback analysis"}
    /\ ~result.metadata.ai_analysis_working

\* C13: whenever the assisted description path raises, for every value of
\* the visual elements, the empty one included, the description
\* _generate_image_description returns holds a fallback-marker phrase and the
\* result has ai_analysis_working false.
C13_RaisedDescriptionIsMarked ==
    (pc \in {"ideas", "score", "result", "done"}
        /\ assisted_description(image, llm).raised) =>
        /\ exception = None => MarkersOf(image_description) # {}
        /\ Returned =>
              /\ ~result.metadata.ai_analysis_working
              /\ MarkersOf(result.metadata.image_description) # {}

\* the empty visual elements: the size reads unknownxunknown
C13_Witness ==
    /\ Returned
    /\ exception = None
    /\ visual_elements = EmptyDict
    /\ "page structure: unknownxunknown" \in image_description.markers
    /\ result.metadata.image_description = image_description
    /\ ~result.metadata.ai_analysis_working

Titles(list) == {list[i].title : i \in 1..Len(list)}

\* the titles of the templates of the five archetype generators
ArchetypeTitles ==
    UNION {Titles(_generate_meditation_app_ideas(t, ve))
             \cup Titles(_generate_learning_platform_ideas(t, ve))
             \cup Titles(_generate_ecommerce_ideas(t, ve))
             \cup Titles(_generate_saas_ideas(t, ve))
             \cup Titles(_generate_generic_specific_ideas(t, ve)) :
           t \in Texts, ve \in {_extract_visual_elements(img) : img \in Images}}

\* C14: when the extracted text has fewer than 50 characters
\* _generate_cro_ideas does not classify the business type, none of its
\* ideas is a template of an archetype, and what it returns is the list of
\* the archetype-agnostic templates of the visual analysis.
C14_ShortTextNotClassified ==
    (pc = "gen_returned" /\ extracted_text.len < 50) =>
        /\ business_type = None
        /\ Titles(ideas) \cap ArchetypeTitles = {}
        /\ ideas = _generate_specific_ideas_from_analysis(image_description,
                        extracted_text, visual_elements)

\* a short text that names a shop, under a description of the heuristic tier
C14_Witness ==
    /\ pc = "gen_returned"
    /\ extracted_text.len = 20
    /\ AnyOccurs(ecommerce_indicators, extracted_text)
    /\ "enhanced landing page analysis" \in image_description.markers
    /\ business_type = None
    /\ Len(ideas) > 0

\* C15: when OCR raises _extract_text returns the fixed non-empty
\* placeholder, and the generator treats the placeholder as it treats a
\* missing text: the business type is not classified and the ideas are those
\* the empty text gives.
C15_PlaceholderIsNotMeaningful ==
    /\ (pc \in {"describe", "ideas", "score", "result", "done"} /\ ocr.raises) =>
          /\ extracted_text = placeholder_text
          /\ extracted_text.len > 0
    /\ (pc \in {"score", "result"} /\ ocr.raises) =>
          /\ business_type = None
          /\ ideas = _generate_cro_ideas(image_description, [len |-> 0, phrases |-> {}],
                                         visual_elements, console_emoji).value

C15_Witness ==
    /\ pc = "score"
    /\ image.decodable
    /\ ocr.raises
    /\ extracted_text = placeholder_text
    /\ business_type = None
    /\ Len(ideas) = 9

\* C16: when a stage of analyze_landing_page raises, the exception is caught
\* at the top and a result is returned that holds exactly the scored
\* hard-fallback pool, 20 ideas, the summary of those ideas, metadata.error
\* set to the failure text and ai_analysis_working false.
C16_ExceptionGivesHardFallback ==
    /\ pc = "except" => exception # None
    /\ (Returned /\ exception # None) =>
          /\ \E up \in BOOLEAN :
                 result.ideas = _score_ideas_with_ice(_get_fallback_ideas, up)
          /\ Len(result.ideas) = 20
          /\ Titles(result.ideas) = Titles(_get_fallback_ideas)
          /\ \E up \in BOOLEAN : result.summary = _generate_summary(result.ideas, up)
          /\ result.summary.total_ideas = 20
          /\ "error" \in DOMAIN result.metadata
          /\ result.metadata.error = exception
          /\ ~result.metadata.ai_analysis_working

C16_Witness ==
    /\ Returned
    /\ exception = "UnicodeEncodeError"
    /\ ~console_emoji
    /\ Len(result.ideas) = 20
    /\ result.metadata.error = "UnicodeEncodeError"

\* C17: for an image that cannot be decoded the result is the best-effort
\* fallback whose metadata holds an 'error' entry with the failure
\* description and whose ai_analysis_working is false.
C17_UndecodableImageReportsError ==
    (Returned /\ ~image.decodable) =>
        /\ "error" \in DOMAIN result.metadata
        /\ ~result.metadata.ai_analysis_working

\* the description passes the marker check of line 546, so that the call goes
\* on to the model call of line 627, which raises
ReachesModelCall(description) ==
    /\ "enhanced landing page analysis" \notin description.markers
    /\ "desktop layout detected" \notin description.markers

C19_AssistedDescriptionIsReturned ==
    (Returned /\ llm.available /\ image.decodable /\ console_emoji) =>
        /\ result.metadata.image_description = llm.description
        /\ result.metadata.ai_analysis_working

Range(list) == {list[i] : i \in 1..Len(list)}

\* an idea of one of the template pools, as opposed to an idea of a reply
IsTemplate(idea) == "kw" \in DOMAIN idea

\* the ideas the replies of the model hold: first batch, additional batch
\* when it was asked for, manually parsed batch
Supplied(reply) ==
    IF reply.kind = "json_list"
    THEN Range(reply.ideas)
         \cup (IF reply.additional.raises
                  \/ "_generate_additional_specific_ideas" \notin Range(calls)
               THEN {} ELSE Range(reply.additional.ideas))
    ELSE IF reply.kind = "text" THEN Range(_parse_ideas_manually(reply.lines))
    ELSE {}

\* at least one specific term in title or description, and not every
\* generic phrase in title or description
PassesFilter(idea) ==
    LET terms == TermsIn(Get(idea, "title", "")) \cup TermsIn(Get(idea, "description", ""))
    IN  /\ terms \cap specific_indicators # {}
        /\ ~ (generic_phrases \subseteq terms)

\* C20: _is_idea_specific_to_image accepts an idea iff its title or
\* description holds a term of the specific vocabulary and not every generic
\* phrase occurs in its title or description; every idea the assisted tiers
\* (first batch, additional batch, manually parsed batch) contribute to the
\* output has passed the filter, and every idea of theirs that passes is
\* contributed.
C20_AssistedIdeasAreFiltered ==
    pc = "reply_handled" =>
        /\ \A x \in Supplied(llm) :
               /\ PassesFilter(x) <=>
                      _is_idea_specific_to_image(x, image_description, extracted_text,
                                                 visual_elements)
               /\ PassesFilter(x) <=> x \in Range(ideas)
        /\ \A x \in Range(ideas) : IsTemplate(x) \/ (x \in Supplied(llm) /\ PassesFilter(x))

\* a first batch with an idea that names a specific term and every generic
\* phrase, rejected, next to one that is kept
C20_Witness ==
    /\ pc = "reply_handled"
    /\ llm.kind = "json_list"
    /\ \E x \in Range(llm.ideas) :
           /\ "form" \in TermsIn(Get(x, "title", "")) \cup TermsIn(Get(x, "description", ""))
           /\ x \notin Range(ideas)
    /\ \E x \in Range(llm.ideas) : x \in Range(ideas)
    /\ \E x \in Range(ideas) : IsTemplate(x)

\* the number of ideas of the first batch the filter accepts
Accepted(reply) ==
    Cardinality({i \in 1..Len(reply.ideas) : PassesFilter(reply.ideas[i])})

\* the helper a was called, and before the helper b if b was called at all
CalledBefore(a, b) ==
    \E i \in 1..Len(calls) :
        /\ calls[i] = a
        /\ \A j \in 1..Len(calls) : calls[j] = b => i < j

\* C21 as claimed: whenever fewer than 20 ideas of the first reply pass the
\* filter, the additional batch is requested before any template pool is
\* drawn from.
C21_AdditionalBelowTwenty ==
    (pc = "reply_handled" /\ llm.kind = "json_list" /\ Accepted(llm) < 20) =>
        CalledBefore("_generate_additional_specific_ideas",
                     "_generate_tactical_fallback_ideas")

\* C21: the additional batch is requested exactly when the first reply is a
\* JSON list of which fewer than 15 ideas pass the filter, and then before
\* the tactical pool is drawn from; with 15 to 19 accepted ideas the tactical
\* pool is drawn from without a second request, and a reply parsed line by
\* line is never topped up.
C21_AdditionalBelowFifteen ==
    pc = "reply_handled" =>
        /\ "_generate_additional_specific_ideas" \in Range(calls)
               <=> (llm.kind = "json_list" /\ Accepted(llm) < 15)
        /\ "_generate_additional_specific_ideas" \in Range(calls)
               => CalledBefore("_generate_additional_specific_ideas",
                               "_generate_tactical_fallback_ideas")
        /\ (llm.kind = "json_list" /\ Accepted(llm) \in 15..19)
               => calls = <<"_generate_tactical_fallback_ideas">>
        /\ llm.kind = "text" => calls = <<"_parse_ideas_manually">>

\* 14 accepted ideas, a second batch with an accepted idea, then templates
C21_Witness ==
    /\ pc = "reply_handled"
    /\ llm.kind = "json_list"
    /\ Accepted(llm) = 14
    /\ ~llm.additional.raises
    /\ \E x \in Range(llm.additional.ideas) : x \in Range(ideas)
    /\ calls = <<"_generate_additional_specific_ideas",
                 "_generate_tactical_fallback_ideas">>
    /\ Len(ideas) = 20

\* the generator has returned a list, in either specification of it
GeneratorReturned == pc \in {"gen_returned", "reply_handled"}

TacticalTitles == Titles(_generate_tactical_fallback_ideas("", "", EmptyDict))

IsArchetype(idea) == Get(idea, "title", "") \in ArchetypeTitles

IsTactical(idea) == Get(idea, "title", "") \in TacticalTitles

\* no idea of the tactical pool stands before an idea of an archetype
ArchetypeFirst(list) ==
    \A i, j \in 1..Len(list) :
        (IsTactical(list[i]) /\ IsArchetype(list[j])) => j < i

\* C22 as claimed: whenever the output of the generator holds templates,
\* ideas of an archetype are among them and no tactical idea precedes one.
C22_ArchetypeBeforeTactical ==
    (GeneratorReturned /\ \E x \in Range(ideas) : IsTemplate(x)) =>
        /\ \E x \in Range(ideas) : IsArchetype(x)
        /\ ArchetypeFirst(ideas)

\* C22: archetype templates are drawn only by _generate_specific_ideas_from_text,
\* that is under a description of the heuristic tier with a text of more
\* than 50 characters: the output is then the templates of the classified
\* business type (for the type "generic" there may be none) followed by
\* ideas of the tactical pool, no tactical idea before an archetype idea.
\* Every other output (short text, the handler
\* of a failed call, the top-up of a reply) holds no archetype idea; the
\* top-up of a reply draws from the tactical pool alone.
C22_ArchetypeFirstFromTextOnly ==
    GeneratorReturned =>
        /\ (pc = "gen_returned" /\ business_type # None) =>
               /\ business_type # "generic" => \E x \in Range(ideas) : IsArchetype(x)
               /\ \E x \in Range(ideas) : IsTactical(x)
               /\ \A x \in Range(ideas) : IsArchetype(x) \/ IsTactical(x)
               /\ ArchetypeFirst(ideas)
               /\ Len(ideas) <= 20
        /\ (pc = "gen_returned" /\ business_type # None)
               <=> (/\ pc = "gen_returned"
                    /\ MarkersOf(image_description)
                           \cap {"enhanced landing page analysis",
                                 "desktop layout detected"} # {}
                    /\ extracted_text.len > 50)
        /\ ~(pc = "gen_returned" /\ business_type # None) =>
               \A x \in Range(ideas) : ~IsArchetype(x)
        /\ (pc = "reply_handled" /\ llm.kind = "json_list") =>
               \A x \in Range(ideas) : IsTemplate(x) => IsTactical(x)
        /\ TacticalTitles \cap ArchetypeTitles = {}

\* a text that names a shop: the shop's templates, then tactical ones
C22_Witness ==
    /\ pc = "gen_returned"
    /\ business_type = "ecommerce"
    /\ IsArchetype(ideas[1])
    /\ IsTactical(ideas[Len(ideas)])
    /\ ideas[1] \in Range(_generate_ecommerce_ideas(extracted_text, visual_elements))

\* the generator has returned and its list was scored (lines 152-170)
Scored == pc = "result" \/ (pc = "done" /\ exception = None)

\* C23: no idea carries an id when it leaves the generator, and
\* _score_ideas_with_ice gives the i-th idea of its input the id idea_i:
\* the returned list has one entry per input idea, their ids are 1..n, and
\* the entry with id i has the title, category and priority of input idea i.
C23_IdsInGenerationOrder ==
    /\ (pc = "score" \/ Scored) => \A i \in 1..Len(ideas) : "id" \notin DOMAIN ideas[i]
    /\ Scored =>
           /\ Len(scored_ideas) = Len(ideas)
           /\ {scored_ideas[j].id : j \in 1..Len(scored_ideas)} = 1..Len(ideas)
           /\ \A i \in 1..Len(ideas) :
                  \E j \in 1..Len(scored_ideas) :
                      /\ scored_ideas[j].id = i
                      /\ scored_ideas[j].title = ideas[i].title
                      /\ scored_ideas[j].category = Get(ideas[i], "category", "general")
                      /\ scored_ideas[j].priority = Get(ideas[i], "priority", "medium")

\* a list of a dozen generated ideas, scored, the last of them idea_12
C23_Witness ==
    /\ pc = "result"
    /\ Len(ideas) = 12
    /\ \E j \in 1..Len(scored_ideas) :
           scored_ideas[j].id = 12 /\ scored_ideas[j].title = ideas[12].title
    /\ ideas[1].title # ideas[12].title

\* The reference formulas, in hundredths.  An absent attribute counts as
\* the scorer's default for it: category layout, no case studies counted,
\* reasoning_strength 0.5, complexity medium, 3 days.
Bonus(d, attribute, amount) == IF Get(d, attribute, FALSE) THEN amount ELSE 0

ReferenceWeight(category) ==
    CASE category = "ux" -> 130
      [] category = "copy" -> 120
      [] category = "design" -> 110
      [] category = "layout" -> 100
      [] category = "technical" -> 90
      [] OTHER -> 100

ReferenceImpact(d) ==
    LET sum == 5 * ReferenceWeight(Get(d, "category", "layout"))
               + Bonus(d, "affects_value_proposition", 200)
               + Bonus(d, "affects_cta", 150)
               + Bonus(d, "affects_trust", 100)
               + Bonus(d, "affects_social_proof", 100)
    IN  IF sum < 100 THEN 100 ELSE IF sum > 1000 THEN 1000 ELSE sum

ReferenceConfidence(d) ==
    LET sum == 500
               + Bonus(d, "has_case_studies", 200)
               + (IF Get(d, "case_study_count", 0) \in 4..(MaxCaseStudyCount + 4)
                  THEN 100 ELSE 0)
               + Bonus(d, "follows_best_practices", 150)
               + Bonus(d, "industry_standard", 100)
               + 2 * Get(d, "reasoning_strength", 50)
    IN  IF sum < 100 THEN 100 ELSE IF sum > 1000 THEN 1000 ELSE sum

ReferenceEffort(d) ==
    LET days == Get(d, "dev_time_days", 3)
        complexity == Get(d, "complexity", "medium")
        sum == 500
               + (CASE complexity = "low" -> -200
                    [] complexity = "medium" -> 0
                    [] complexity = "high" -> 200)
               + (CASE days \in 0..1 -> -200
                    [] days \in 2..3 -> -100
                    [] days \in 4..6 -> 0
                    [] OTHER -> 200)
               + Bonus(d, "requires_design", 100)
               + Bonus(d, "requires_copywriting", 50)
               + Bonus(d, "requires_ab_testing", 100)
               + Bonus(d, "requires_user_research", 150)
    IN  IF sum < 100 THEN 100 ELSE IF sum > 1000 THEN 1000 ELSE sum

\* C24: for every attribute dict the impact, confidence and effort that
\* score_idea computes are those of the reference formulas, and the record
\* it returns holds them rounded to one decimal.
C24_FactorsFollowReference ==
    pc = "scored" =>
        /\ calculate_impact(idea_data) = ReferenceImpact(idea_data)
        /\ calculate_confidence(idea_data) = ReferenceConfidence(idea_data)
        /\ calculate_effort(idea_data) = ReferenceEffort(idea_data)
        /\ ice_scores.impact = ReferenceImpact(idea_data)
        /\ NearestTo(ice_scores.confidence, ReferenceConfidence(idea_data), 1, 10)
        /\ ice_scores.effort = ReferenceEffort(idea_data)

\* exactly 3 case studies counted and nothing else in favour: no bonus
C24_Witness ==
    /\ pc = "scored"
    /\ Get(idea_data, "case_study_count", 0) = 3
    /\ ~idea_data.has_case_studies
    /\ ~idea_data.follows_best_practices /\ ~idea_data.industry_standard
    /\ Get(idea_data, "reasoning_strength", 50) = 0
    /\ ice_scores.confidence = 500

\* how often _extract_visual_elements has run
Extractions == Cardinality({i \in 1..Len(calls) : calls[i] = "_extract_visual_elements"})

\* C25: in a run that returns through the normal path the visual elements
\* are extracted exactly once, before the text and the description, and the
\* record in metadata.visual_elements is that one record.
C25_VisualElementsProducedOnce ==
    /\ pc \in {"text", "describe"} => calls = <<"_extract_visual_elements">>
    /\ (Returned /\ exception = None) =>
           /\ Extractions = 1
           /\ result.metadata.visual_elements = visual_elements

C27_IdsDistinct ==
    Returned =>
        \A i, j \in 1..Len(result.ideas) :
            i # j => result.ideas[i].id # result.ideas[j].id

\* C28: for every description the flag _is_ai_analysis_working reports is
\* false iff _generate_cro_ideas took the description for heuristic output
\* and returned without trying the model call of line 627.
C28_FlagAgreesWithGenerator ==
    pc = "gen_returned" =>
        (~_is_ai_analysis_working(image_description)
            <=> "client.chat.completions.create" \notin Range(calls))

\* the lines that start with 'Title:', in order of appearance
TitleLines(lines) == SelectSeq(lines, LAMBDA line : line.tag = "Title:")

\* the position in lines of the k-th line that starts with 'Title:'
TitlePosition(lines, k) ==
    CHOOSE p \in 1..Len(lines) :
        /\ lines[p].tag = "Title:"
        /\ Cardinality({q \in 1..p : lines[q].tag = "Title:"}) = k

\* the 'Description:' lines between the k-th 'Title:' line and the next one
DescriptionsOf(lines, k) ==
    LET from == TitlePosition(lines, k)
        to == IF k < Len(TitleLines(lines)) THEN TitlePosition(lines, k + 1)
              ELSE Len(lines) + 1
    IN  {p \in (from + 1)..(to - 1) : lines[p].tag = "Description:"}

\* C29: for every sequence of lines _parse_ideas_manually returns one record
\* per line starting with 'Title:', in order of appearance; every record
\* carries a title; a 'Description:' line is attached to the record of the
\* nearest preceding 'Title:' line, and field lines before the first
\* 'Title:' line produce no record.
C29_OneRecordPerTitleLine ==
    (pc = "reply_handled" /\ llm.kind = "text") =>
        LET parsed == _parse_ideas_manually(llm.lines)
            titles == TitleLines(llm.lines)
        IN  /\ Len(parsed) = Len(titles)
            /\ \A k \in 1..Len(parsed) :
                   /\ "title" \in DOMAIN parsed[k]
                   /\ parsed[k].title = titles[k].text
                   /\ LET ds == DescriptionsOf(llm.lines, k)
                      IN  IF ds = {} THEN "description" \notin DOMAIN parsed[k]
                          ELSE \E p \in ds :
                                   /\ \A q \in ds : q <= p
                                   /\ parsed[k].description = llm.lines[p].text
            /\ \A x \in Range(ideas) : "title" \in DOMAIN x

\* C30: on the default scoring path every scored idea has the confidence
\* 10.0, whatever its category and title, and its score is that of
\* impact * 10 / effort: ideas with equal impact and effort have equal scores.
C30_ConfidenceAlwaysTen ==
    pc = "batch_scored" =>
        /\ \A j \in 1..Len(scored_ideas) :
               /\ scored_ideas[j].ice.confidence = 1000
               /\ NearestTo(scored_ideas[j].ice.score,
                            scored_ideas[j].ice.impact * 1000,
                            scored_ideas[j].ice.effort, 1)
        /\ \A i, j \in 1..Len(scored_ideas) :
               (/\ scored_ideas[i].ice.impact = scored_ideas[j].ice.impact
                /\ scored_ideas[i].ice.effort = scored_ideas[j].ice.effort)
                   => scored_ideas[i].ice.score = scored_ideas[j].ice.score

\* a trust idea, a copy idea and an idea without category, all at 10.0
C30_Witness ==
    /\ pc = "batch_scored"
    /\ Len(scored_ideas) = 3
    /\ scored_ideas[1].category = "trust"
    /\ scored_ideas[2].category = "copy"
    /\ "category" \notin DOMAIN ideas[3]
    /\ \A j \in 1..3 : scored_ideas[j].ice.confidence = 1000
    /\ scored_ideas[1].ice.score # scored_ideas[2].ice.score

====
